---- MODULE Spec2Model ----
(***************************************************************************)
(* A model of the group trip planner bot (src/bot.py): the date-expression *)
(* expander, the common-window aggregation, the destination tally, the     *)
(* conversation that stores one row per participant and the /final        *)
(* command that turns the stored rows into an itinerary document.         *)
(*                                                                         *)
(* Text is modelled as a sequence of one-character strings, so that       *)
(* splitting, trimming, matching, parsing and formatting are computed on   *)
(* characters as the code computes them.  A character outside ASCII is     *)
(* written by its code point ("U2013" is the en dash).                     *)
(***************************************************************************)
EXTENDS Integers, Sequences, FiniteSets, TLC

VARIABLES
    date_text,   \* expand_date_range: the argument of the call
    dates,       \* expand_date_range: the list it returned
    pc_expand,   \* "idle" | "call" | "return" | "raised"
    records,     \* the record list a call works on: the argument of
                 \* intersect_available_minus_notfeasible, the snapshot
                 \* generate_group_pdf_itinerary reads
    common,      \* intersect_available_minus_notfeasible: the list it returned
    pc_window,   \* "idle" | "call" | "return"
    sheet,       \* the rows of the Google sheet under its header row
    fin,         \* what the last /final command computed and answered
    pc_final,    \* a /final call followed step by step: "idle" | "read" |
                 \* "ranked" | "done"
    state,       \* the participant's conversation state; "END" outside one
    user_data,   \* the participant's context.user_data
    said,        \* the messages the last conversation handler sent, in order
    fresh        \* the user_data keys written by the conversation in progress

\* ------------------------------------------------------------------ bounds

\* Longest text enumerated exhaustively over Alphabet as an expander input.
MaxLen == 5

\* Most participant records in a record list or in the sheet.
MaxRecords == 3

\* Most rows the conversations append to the sheet.
MaxRows == 2

\* ------------------------------------------------------------ characters

Letters ==
    {"A","B","C","D","E","F","G","H","I","J","K","L","M","N","O","P","Q","R",
     "S","T","U","V","W","X","Y","Z",
     "a","b","c","d","e","f","g","h","i","j","k","l","m","n","o","p","q","r",
     "s","t","u","v","w","x","y","z"}

Digits == {"0","1","2","3","4","5","6","7","8","9"}

\* What str.strip() removes and \s matches.
Whitespace == {" ", "\t", "\n", "\r"}

\* The character class [...] between the two day numbers of the pattern of
\* expand_date_range, as the source file spells it: U+201A, U+00C4, U+00EC
\* and the ASCII hyphen.
RangeSeps == {"U201A", "U00C4", "U00EC", "-"}

\* The separators re.split(r',|\n', ...) splits on.
PartSeps == {",", "\n"}

DigitVal ==
    ("0" :> 0) @@ ("1" :> 1) @@ ("2" :> 2) @@ ("3" :> 3) @@ ("4" :> 4) @@
    ("5" :> 5) @@ ("6" :> 6) @@ ("7" :> 7) @@ ("8" :> 8) @@ ("9" :> 9)

DigitChar == <<"0","1","2","3","4","5","6","7","8","9">>

\* Python's None.
None == <<"<None>">>

\* Python truthiness of a text value: None and "" are false.
Falsy(v) == v = None \/ v = <<>>

\* ------------------------------------------------------- text primitives

\* int(s) for a run of decimal digits.
RECURSIVE IntOfDigits(_)
IntOfDigits(s) ==
    IF s = <<>> THEN 0
    ELSE 10 * IntOfDigits(SubSeq(s, 1, Len(s) - 1)) + DigitVal[s[Len(s)]]

\* str(n) for n >= 0.
RECURSIVE StrOfNat(_)
StrOfNat(n) ==
    IF n < 10 THEN <<DigitChar[n + 1]>>
    ELSE StrOfNat(n \div 10) \o <<DigitChar[(n % 10) + 1]>>

\* str.strip(): the text between its first and its last character that is
\* no whitespace.
RECURSIVE SkipBlanks(_, _)
SkipBlanks(s, i) ==
    IF i <= Len(s) /\ s[i] \in Whitespace THEN SkipBlanks(s, i + 1) ELSE i

RECURSIVE SkipBlanksBack(_, _)
SkipBlanksBack(s, i) ==
    IF i >= 1 /\ s[i] \in Whitespace THEN SkipBlanksBack(s, i - 1) ELSE i

Strip(s) == SubSeq(s, SkipBlanks(s, 1), SkipBlanksBack(s, Len(s)))

\* re.split / str.split on single-character separators: the pieces between
\* the separators, empty pieces kept.  The piece being read starts at from
\* and ends before the next separator, or with the text.
RECURSIVE SplitFrom(_, _, _)
SplitFrom(s, seps, from) ==
    LET ahead == {i \in from..Len(s) : s[i] \in seps}
    IN  IF ahead = {} THEN <<SubSeq(s, from, Len(s))>>
        ELSE LET i == CHOOSE k \in ahead : \A j \in ahead : k <= j
             IN  <<SubSeq(s, from, i - 1)>> \o SplitFrom(s, seps, i + 1)

Split(s, seps) == SplitFrom(s, seps, 1)

\* [f(x) for x in xs if x]: the non-empty members of xs, in order.
RECURSIVE NonEmpty(_)
NonEmpty(xs) ==
    IF xs = <<>> THEN <<>>
    ELSE IF xs[1] = <<>> THEN NonEmpty(Tail(xs))
    ELSE <<xs[1]>> \o NonEmpty(Tail(xs))

StripAll(xs) == [i \in 1..Len(xs) |-> Strip(xs[i])]

\* The set of members of a sequence: set(xs).
SetOf(xs) == {xs[i] : i \in 1..Len(xs)}

\* --------------------------------------------------- expand_date_range

\* The index after the longest run of characters of class C starting at i:
\* what a greedy C* consumes.
RECURSIVE RunEnd(_, _, _)
RunEnd(s, i, C) ==
    IF i <= Len(s) /\ s[i] \in C THEN RunEnd(s, i + 1, C) ELSE i

\* re.match(r'([A-Za-z]+)\s*(\d+)\s*[...]\s*(\d+)', part): anchored at the
\* start of the part only.  The classes are disjoint, so the greedy runs are
\* the only way to match.
RangeMatch(part) ==
    LET a == RunEnd(part, 1, Letters)
        b == RunEnd(part, a, Whitespace)
        c == RunEnd(part, b, Digits)
        d == RunEnd(part, c, Whitespace)
        f == RunEnd(part, d + 1, Whitespace)
        g == RunEnd(part, f, Digits)
        ok == /\ a > 1
              /\ c > b
              /\ d <= Len(part)
              /\ part[d] \in RangeSeps
              /\ g > f
    IN  IF ok
        THEN [matched |-> TRUE,
              month   |-> SubSeq(part, 1, a - 1),
              start   |-> SubSeq(part, b, c - 1),
              end     |-> SubSeq(part, f, g - 1)]
        ELSE [matched |-> FALSE, month |-> <<>>, start |-> <<>>, end |-> <<>>]

\* A range that stops one day short: range(start_i, end_i).
RangeDates_exclusive(month, start_i, end_i) ==
    [k \in 1..(end_i - start_i) |-> month \o <<" ">> \o StrOfNat(start_i + k - 1)]

\* A range that counts down when its start exceeds its end.
RangeDates_reversed(month, start_i, end_i) ==
    IF start_i > end_i
    THEN [k \in 1..(start_i - end_i + 1) |-> month \o <<" ">> \o StrOfNat(start_i - k + 1)]
    ELSE [k \in 1..(end_i - start_i + 1) |-> month \o <<" ">> \o StrOfNat(start_i + k - 1)]

\* for d in range(start_i, end_i + 1): dates.append(f"{month} {d}")
RangeDates(month, start_i, end_i) ==
    [k \in 1..(end_i - start_i + 1) |-> month \o <<" ">> \o StrOfNat(start_i + k - 1)]

\* The body of the loop over the parts.
RECURSIVE ExpandParts(_)
ExpandParts(parts) ==
    IF parts = <<>> THEN <<>>
    ELSE LET m == RangeMatch(parts[1])
         IN  (IF m.matched
              THEN RangeDates(m.month, IntOfDigits(m.start), IntOfDigits(m.end))
              ELSE <<parts[1]>>)
             \o ExpandParts(Tail(parts))

\* The parts without the "if p.strip()" filter: empty parts kept.
DateParts_keep_empty(text) == StripAll(Split(text, PartSeps))

\* parts = [p.strip() for p in re.split(r',|\n', date_text) if p.strip()]
DateParts(text) == NonEmpty(StripAll(Split(text, PartSeps)))

expand_date_range(text) ==
    IF Falsy(text) THEN <<>> ELSE ExpandParts(DateParts(text))

\* int(s) raises ValueError unless s is a run of digits (the only texts the
\* pattern's groups can hold; signs and blanks do not occur in them).
IntRaises(s) == s = <<>> \/ \E i \in 1..Len(s) : s[i] \notin Digits

\* Whether the call raises: the only operations of the body that can are the
\* two int() conversions of a matched part.
ExpandRaises(text) ==
    /\ ~Falsy(text)
    /\ \E i \in 1..Len(DateParts(text)) :
           LET m == RangeMatch(DateParts(text)[i])
           IN  m.matched /\ (IntRaises(m.start) \/ IntRaises(m.end))

\* ------------------------------ intersect_available_minus_notfeasible

\* The characters in code point order: str comparison, which sorted() uses,
\* compares texts character by character in this order.
CharOrder ==
    <<"\t", "\n", "\r", " ", "'", "(", ")", ",", "-", ".",
      "0","1","2","3","4","5","6","7","8","9", ";",
      "A","B","C","D","E","F","G","H","I","J","K","L","M","N","O","P","Q","R",
      "S","T","U","V","W","X","Y","Z",
      "a","b","c","d","e","f","g","h","i","j","k","l","m","n","o","p","q","r",
      "s","t","u","v","w","x","y","z", "|",
      "U00C4", "U00EC", "U00EE", "U2013", "U2014", "U201A">>

OrdOf == [ch \in SetOf(CharOrder) |-> CHOOSE i \in 1..Len(CharOrder) : CharOrder[i] = ch]

Ord(ch) == OrdOf[ch]

\* a < b for two texts.
RECURSIVE TextLess(_, _)
TextLess(a, b) ==
    IF b = <<>> THEN FALSE
    ELSE IF a = <<>> THEN TRUE
    ELSE IF a[1] = b[1] THEN TextLess(Tail(a), Tail(b))
    ELSE Ord(a[1]) < Ord(b[1])

\* sorted(S) for a set of texts.
RECURSIVE Sorted(_)
Sorted(S) ==
    IF S = {} THEN <<>>
    ELSE LET least == CHOOSE x \in S : \A y \in S \ {x} : TextLess(x, y)
         IN  <<least>> \o Sorted(S \ {least})

\* str(value or '').strip() of a field.
FieldText(v) == IF Falsy(v) THEN <<>> ELSE Strip(v)

\* set(expand_date_range(s)) if s else set()
DateSet(v) ==
    IF FieldText(v) = <<>> THEN {} ELSE SetOf(expand_date_range(FieldText(v)))

\* The availability sets with the blank ones left out, as if a participant
\* without dates did not count.
AvailableSets_skip_blank(recs) ==
    LET keep == SelectSeq(recs, LAMBDA r : DateSet(r.Dates_Available) # {})
    IN  [i \in 1..Len(keep) |-> DateSet(keep[i].Dates_Available)]

\* available_sets and not_feasible_sets after the loop over the records.
AvailableSets(recs) == [i \in 1..Len(recs) |-> DateSet(recs[i].Dates_Available)]

NotFeasibleSets(recs) == [i \in 1..Len(recs) |-> DateSet(recs[i].Dates_Not_Feasible)]

\* A window that leaves the excluded dates in.
WindowFrom_keep_excluded(available_sets, not_feasible_sets) ==
    IF available_sets = <<>> THEN <<>>
    ELSE Sorted({t \in available_sets[1] :
                    \A i \in 1..Len(available_sets) : t \in available_sets[i]})

\* The rest of the function: no sets, an empty intersection, or the sorted
\* difference.
WindowFrom(available_sets, not_feasible_sets) ==
    IF available_sets = <<>> THEN <<>>
    ELSE LET inter == {t \in available_sets[1] :
                          \A i \in 1..Len(available_sets) : t \in available_sets[i]}
             union_nf == UNION {not_feasible_sets[i] : i \in 1..Len(not_feasible_sets)}
         IN  IF inter = {} THEN <<>> ELSE Sorted(inter \ union_nf)

intersect_available_minus_notfeasible(recs) ==
    WindowFrom(AvailableSets(recs), NotFeasibleSets(recs))

\* ------------------------------------------ generate_group_pdf_itinerary

\* int(v or 0) for a cell: [ok, val]; ok is FALSE where int() raises
\* ValueError.  int() accepts surrounding whitespace and one sign.
PyInt(v) ==
    IF Falsy(v) THEN [ok |-> TRUE, val |-> 0]
    ELSE LET t == Strip(v)
             signed == t # <<>> /\ t[1] \in {"+", "-"}
             ds == IF signed THEN Tail(t) ELSE t
         IN  IF IntRaises(ds) THEN [ok |-> FALSE, val |-> 0]
             ELSE [ok |-> TRUE,
                   val |-> IF signed /\ t[1] = "-" THEN 0 - IntOfDigits(ds)
                           ELSE IntOfDigits(ds)]

\* int(a / n): the quotient truncated toward zero.
TruncDiv(a, n) == IF a >= 0 THEN a \div n ELSE 0 - ((0 - a) \div n)

RECURSIVE SumSeq(_)
SumSeq(xs) == IF xs = <<>> THEN 0 ELSE xs[1] + SumSeq(Tail(xs))

\* [x.strip() for x in (r.get('Selected Destinations') or "").split(",") if x.strip()]
Selections(r) ==
    IF Falsy(r.Selected_Destinations) THEN <<>>
    ELSE NonEmpty(StripAll(Split(r.Selected_Destinations, {","})))

\* A counter that records a name once and does not count it again.
Bump_presence(counter, d) ==
    IF \E i \in 1..Len(counter) : counter[i][1] = d
    THEN counter
    ELSE Append(counter, <<d, 1>>)

\* dest_counts[d] += 1 on a Counter kept in insertion order: a sequence of
\* <<name, count>>.
Bump(counter, d) ==
    IF \E i \in 1..Len(counter) : counter[i][1] = d
    THEN [i \in 1..Len(counter) |->
             IF counter[i][1] = d THEN <<d, counter[i][2] + 1>> ELSE counter[i]]
    ELSE Append(counter, <<d, 1>>)

RECURSIVE BumpAll(_, _)
BumpAll(counter, ds) ==
    IF ds = <<>> THEN counter ELSE BumpAll(Bump(counter, ds[1]), Tail(ds))

\* The two nested loops that fill dest_counts.
RECURSIVE DestCounts(_, _)
DestCounts(counter, recs) ==
    IF recs = <<>> THEN counter
    ELSE DestCounts(BumpAll(counter, Selections(recs[1])), Tail(recs))

\* A ranking that puts the later of two equal counts first.
RECURSIVE MostCommon_ties_reversed(_)
MostCommon_ties_reversed(counter) ==
    IF counter = <<>> THEN <<>>
    ELSE LET rest == MostCommon_ties_reversed(Tail(counter))
             k == Cardinality({i \in 1..Len(rest) : rest[i][2] >= counter[1][2]})
         IN  SubSeq(rest, 1, k) \o <<counter[1]>> \o SubSeq(rest, k + 1, Len(rest))

\* Counter.most_common(): sorted(items, key=count, reverse=True), a stable
\* sort: each item goes after the items already placed whose count is not
\* smaller.
RECURSIVE MostCommon(_)
MostCommon(counter) ==
    IF counter = <<>> THEN <<>>
    ELSE LET rest == MostCommon(Tail(counter))
             k == Cardinality({i \in 1..Len(rest) : rest[i][2] > counter[1][2]})
             \* the items of rest are in descending count order, and the
             \* head of counter precedes them all in insertion order
         IN  SubSeq(rest, 1, k) \o <<counter[1]>> \o SubSeq(rest, k + 1, Len(rest))

\* Counter.most_common(1): max(items, key=count), which keeps the first of
\* the items with the largest count.
FirstMax(counter) ==
    counter[CHOOSE i \in 1..Len(counter) :
                /\ \A j \in 1..Len(counter) : counter[j][2] <= counter[i][2]
                /\ \A j \in 1..(i - 1) : counter[j][2] < counter[i][2]]

\* parse_itinerary_table_from_ai: the lines that hold a "|" and split into
\* exactly six cells between their first and last "|".
TableCells(line) ==
    LET pieces == Split(line, {"|"})
    IN  StripAll(SubSeq(pieces, 2, Len(pieces) - 1))

HasBar(line) == \E i \in 1..Len(line) : line[i] = "|"

RECURSIVE TableRows(_)
TableRows(lines) ==
    IF lines = <<>> THEN <<>>
    ELSE (IF HasBar(lines[1]) /\ Len(TableCells(lines[1])) = 6
          THEN <<TableCells(lines[1])>> ELSE <<>>)
         \o TableRows(Tail(lines))

parse_itinerary_table_from_ai(text) ==
    TableRows(NonEmpty(StripAll(Split(text, {"\n", "\r"}))))

\* The values the function returns.
NoResponses_same_message ==
    "Not enough data to generate itinerary (no common feasible dates or no selected destinations)."

NoResponses == "No responses yet."
NotEnoughData ==
    "Not enough data to generate itinerary (no common feasible dates or no selected destinations)."
GeneratorError == "Error generating itinerary: ..."
PdfFile == "final_itinerary.pdf"
Raised == "ValueError"

\* The state of a /final command that has not run.
NoFinal ==
    [result |-> "", snapshot |-> <<>>, dest_counts |-> <<>>, ranked |-> <<>>,
     best_dest |-> None, best_dates |-> <<>>, total_people |-> 0, avg_days |-> 0,
     avg_budget |-> 0, prompted |-> FALSE, data_rows |-> <<>>, rendered |-> FALSE,
     reply |-> "none"]

\* A guard that forgets the dates.
NotEnough_dest_only(best_dest, best_dates) == Falsy(best_dest)

\* if not best_dest or not best_dates
NotEnough(best_dest, best_dates) == Falsy(best_dest) \/ best_dates = <<>>

\* generate_group_pdf_itinerary(): recs is what sheet.get_all_records()
\* returned, ai what the completion service does when asked: it fails, or it
\* answers with ai.content.
generate_group_pdf_itinerary(recs, ai) ==
    LET dest_counts == DestCounts(<<>>, recs)
        best_dest == IF dest_counts # <<>> THEN FirstMax(dest_counts)[1] ELSE None
        best_dates == intersect_available_minus_notfeasible(recs)
        people == [i \in 1..Len(recs) |-> PyInt(recs[i].No_of_People)]
        days == [i \in 1..Len(recs) |-> PyInt(recs[i].No_of_Days)]
        budget == [i \in 1..Len(recs) |-> PyInt(recs[i].Budget_Per_Person)]
        allOk == \A i \in 1..Len(recs) : people[i].ok /\ days[i].ok /\ budget[i].ok
        counted == [NoFinal EXCEPT !.snapshot = recs, !.dest_counts = dest_counts,
                                   !.best_dest = best_dest, !.best_dates = best_dates]
        asked == [counted EXCEPT
                     !.total_people = SumSeq([i \in 1..Len(recs) |-> people[i].val]),
                     !.avg_days = TruncDiv(SumSeq([i \in 1..Len(recs) |-> days[i].val]), Len(recs)),
                     !.avg_budget = TruncDiv(SumSeq([i \in 1..Len(recs) |-> budget[i].val]), Len(recs)),
                     !.ranked = MostCommon(dest_counts),
                     !.prompted = TRUE]
    IN  IF recs = <<>>
        THEN [NoFinal EXCEPT !.result = NoResponses]
        ELSE IF NotEnough(best_dest, best_dates)
        THEN [counted EXCEPT !.result = NotEnoughData]
        ELSE IF ~allOk
        THEN [counted EXCEPT !.result = Raised]
        ELSE IF ai.fails
        THEN [asked EXCEPT !.result = GeneratorError]
        ELSE [asked EXCEPT !.result = PdfFile,
                           !.data_rows = parse_itinerary_table_from_ai(ai.content),
                           !.rendered = TRUE]

\* final_itinerary's answer to the chat: the document when the result names
\* the file that was written, the result as text otherwise, nothing when the
\* call raised.
ReplyTo(result) ==
    IF result = Raised THEN "none"
    ELSE IF result = PdfFile THEN "document" ELSE "text"

\* ----------------------------------------------------- the conversation

\* str.lower() on the letters the replies use.
Upper == <<"A","B","C","D","E","F","G","H","I","J","K","L","M","N","O","P","Q","R",
           "S","T","U","V","W","X","Y","Z">>
Lower == <<"a","b","c","d","e","f","g","h","i","j","k","l","m","n","o","p","q","r",
           "s","t","u","v","w","x","y","z">>

LowerChar(ch) ==
    IF \E i \in 1..26 : Upper[i] = ch
    THEN Lower[CHOOSE i \in 1..26 : Upper[i] = ch] ELSE ch

ToLower(s) == [i \in 1..Len(s) |-> LowerChar(s[i])]

\* str(n) for an integer.
StrOfInt(n) == IF n < 0 THEN <<"-">> \o StrOfNat(0 - n) ELSE StrOfNat(n)

\* context.user_data before the first reply: no key is set.
NoData ==
    [Name |-> None, Dates_Available |-> None, Dates_Not_Feasible |-> None,
     No_of_Days |-> None, No_of_People |-> None, Budget_Per_Person |-> None,
     Region_Preference |-> None, Kid_Friendly |-> None, Type_Preference |-> None,
     Suggestions |-> None, Selected_Destinations |-> None]

\* user_data.get(key, ""): the value, or "" for a key that is not set.
GetOr(v) == IF v = None THEN <<>> ELSE v

\* The answers get_not_feasible takes for "no dates".
NoneWords == {<<"n","o","n","e">>, <<"n","o">>, <<"n","/","a">>, <<"n","a">>, <<>>}

\* get_budget: the reply, stripped and lowered, is an integer, or an integer
\* followed by "k" (thousands); anything else is asked again.  The texts
\* modelled hold no fraction before the "k".
BudgetOf(text) ==
    LET t == ToLower(Strip(text))
        kilo == t # <<>> /\ t[Len(t)] = "k"
        num == IF kilo THEN PyInt(SubSeq(t, 1, Len(t) - 1)) ELSE PyInt(t)
        blank == IF kilo THEN Len(t) = 1 ELSE t = <<>>
    IN  IF blank \/ ~num.ok THEN [ok |-> FALSE, val |-> 0]
        ELSE [ok |-> TRUE, val |-> IF kilo THEN num.val * 1000 ELSE num.val]

\* The text the bot keeps when the suggestion request fails.
SorryText ==
    <<"S","o","r","r","y",","," ","c","o","u","l","d","n","'","t"," ",
      "g","e","n","e","r","a","t","e"," ","s","u","g","g","e","s","t","i","o","n","s","."," ",
      "T","r","y"," ","a","g","a","i","n"," ","l","a","t","e","r",".">>

\* re.sub(r'^\s*\d+\s*[\.\)-]*\s*', '', ln): the line without its leading
\* number and the punctuation after it; unchanged when no number leads it.
StripNumbering(ln) ==
    LET a == SkipBlanks(ln, 1)
        b == RunEnd(ln, a, Digits)
        c == SkipBlanks(ln, b)
        d == RunEnd(ln, c, {".", ")", "-"})
        e == SkipBlanks(ln, d)
    IN  IF b > a THEN SubSeq(ln, e, Len(ln)) ELSE ln

\* Whether one of the separators of re.split(r'...|-|\(|;', s) starts at i:
\* the three characters U+201A U+00C4 U+00EE the source file spells, a
\* hyphen, an opening parenthesis or a semicolon.
CutAt(t, i) ==
    \/ t[i] \in {"-", "(", ";"}
    \/ /\ i + 2 <= Len(t)
       /\ t[i] = "U201A" /\ t[i + 1] = "U00C4" /\ t[i + 2] = "U00EE"

\* re.split(...)[0].strip(): the text before the first separator.
BeforeFirstCut(t) ==
    LET cuts == {i \in 1..Len(t) : CutAt(t, i)}
    IN  IF cuts = {} THEN Strip(t)
        ELSE Strip(SubSeq(t, 1, (CHOOSE i \in cuts : \A j \in cuts : i <= j) - 1))

\* suggestion_names: one name per non-empty line of the suggestions.
SuggestionNames(text) ==
    LET lines == NonEmpty(StripAll(Split(text, {"\n", "\r"})))
    IN  [i \in 1..Len(lines) |-> BeforeFirstCut(StripNumbering(lines[i]))]

\* str.isdigit() on the characters modelled.
IsDigits(t) == t # <<>> /\ \A i \in 1..Len(t) : t[i] \in Digits

\* The loop over user_reply.split(","): a number picks the suggestion of
\* that rank when there is one, any other text is a destination of its own.
RECURSIVE Selected(_, _)
Selected(parts, names) ==
    IF parts = <<>> THEN <<>>
    ELSE LET part == Strip(parts[1])
             idx == IntOfDigits(part) - 1
         IN  (IF IsDigits(part)
              THEN (IF 0 <= idx /\ idx < Len(names) THEN <<names[idx + 1]>> ELSE <<>>)
              ELSE <<part>>)
             \o Selected(Tail(parts), names)

\* ", ".join(xs)
RECURSIVE JoinComma(_)
JoinComma(xs) ==
    IF xs = <<>> THEN <<>>
    ELSE IF Len(xs) = 1 THEN xs[1]
    ELSE xs[1] \o <<",", " ">> \o JoinComma(Tail(xs))

\* context.user_data["Selected Destinations"] as get_choices sets it.
SelectedText(reply, suggestions) ==
    JoinComma(NonEmpty(StripAll(Selected(Split(reply, {","}), SuggestionNames(suggestions)))))

\* The row get_choices appends: every key with "" for one that is not set,
\* the budget through str() (user_data holds the integer by that text).
RowOf(ud) ==
    [Name |-> GetOr(ud.Name), Dates_Available |-> GetOr(ud.Dates_Available),
     Dates_Not_Feasible |-> GetOr(ud.Dates_Not_Feasible),
     No_of_Days |-> GetOr(ud.No_of_Days), No_of_People |-> GetOr(ud.No_of_People),
     Budget_Per_Person |-> GetOr(ud.Budget_Per_Person),
     Region_Preference |-> GetOr(ud.Region_Preference),
     Kid_Friendly |-> GetOr(ud.Kid_Friendly),
     Type_Preference |-> GetOr(ud.Type_Preference),
     Selected_Destinations |-> GetOr(ud.Selected_Destinations)]

\* ------------------------------------------------------ expander inputs

\* The characters the exhaustive inputs are built from: a letter, two
\* digits, the hyphen, a blank and the comma.
Alphabet == {"D", "1", "2", "-", " ", ","}

AllTexts(n) == UNION {[1..k -> Alphabet] : k \in 0..n}

Dec == <<"D","e","c">>
SP == <<" ">>

ExampleTexts ==
    { Dec \o SP \o <<"2","0","-","2","2">>,                       \* Dec 20-22
      Dec \o SP \o <<"2","0",","," ">> \o Dec \o SP \o <<"2","5">>, \* Dec 20, Dec 25
      Dec \o SP \o <<"2","0"," ","-"," ","2","2">>,               \* Dec 20 - 22
      Dec \o SP \o <<"2","0","U2013","2","2">>,                   \* en dash
      Dec \o SP \o <<"2","0"," ","U2013"," ","2","2">>,           \* en dash, spaced
      Dec \o SP \o <<"2","0","U2014","2","2">>,                   \* em dash
      Dec \o SP \o <<"2","0","U201A","2","2">>,                   \* U+201A
      Dec \o SP \o <<"0","8","-","1","0">>,                       \* Dec 08-10
      Dec \o SP \o <<"2","2","-","2","0">>,                       \* Dec 22-20
      Dec \o SP \o <<"2","2","-","2","0",","," ">> \o Dec \o SP \o <<"2","5">>,
      Dec \o SP \o <<"2","2","-","2","0",","," ">> \o Dec \o SP \o <<"5","-","7">>,
      Dec \o SP \o <<"9","-","1","1","\n">> \o <<"J","a","n"," ","1","-","2">>,
      Dec \o SP \o <<"2","0","-","2","1"," ","p","m">>,           \* Dec 20-21 pm
      <<"f","l","e","x","i","b","l","e">>,
      <<"2","0","-","2","2">>,                                     \* no month
      <<" ",","," ","\n",",","\t">> }

ExpandInputs == AllTexts(MaxLen) \cup ExampleTexts \cup {None}

\* -------------------------------------------------------- record inputs

T_1 == <<"1">>
T_2 == <<"2">>
T_A == <<"A">>
T_1000 == <<"1","0","0","0">>

\* A participant record: one row of the sheet under its header row.
Row(name, av, nf, days, people, budget, sel) ==
    [Name |-> name, Dates_Available |-> av, Dates_Not_Feasible |-> nf,
     No_of_Days |-> days, No_of_People |-> people, Budget_Per_Person |-> budget,
     Region_Preference |-> <<"A","n","y">>, Kid_Friendly |-> <<"N","o">>,
     Type_Preference |-> <<"H","i","l","l","s">>,
     Selected_Destinations |-> sel]

AvailTexts ==
    { <<"D","1","-","3">>,       \* D 1, D 2, D 3
      <<"D","2","-","3">>,       \* D 2, D 3
      <<"D","9","-","1","0">>,   \* D 9, D 10
      <<"D"," ","2">>,           \* the single date D 2
      <<>>,                      \* blank cell
      None,                      \* missing
      <<" ">>,                   \* only whitespace
      <<"D","2","-","1">> }      \* a range that expands to nothing

NotFeasibleTexts ==
    { <<>>, <<"D"," ","2">>, <<"D","9","-","1","0">> }

WindowRows ==
    {Row(T_A, av, nf, T_2, T_1, T_1000, T_A) : av \in AvailTexts, nf \in NotFeasibleTexts}

\* ---------------------------------------------------- finalization inputs

T_D1_3 == <<"D","1","-","3">>
T_B == <<"B">>

\* The rows of the sheets a /final command is run on: a base row, and rows
\* that differ from it in the dates, in the trip length or in the selection.
FinalRows ==
    {Row(T_A, av, <<>>, T_2, T_1, T_1000, T_A) :
        av \in {T_D1_3, <<"D","9","-","1","0">>}}
    \cup
    {Row(T_A, T_D1_3, <<>>, days, T_1, T_1000, T_A) :
        days \in {<<"0">>, <<"x">>}}
    \cup
    {Row(T_A, T_D1_3, <<>>, T_2, T_1, T_1000, sel) :
        sel \in {<<>>, T_B, <<"B",","," ","A">>, <<"A",","," ","A">>}}

\* The lines of the completion service's answers.
Bar == <<"|">>
NL == <<"\n">>
L_head == <<"|"," ","D","a","y"," ","|"," ","P"," ","|","M","|","T","|","A","|","C","|">>
L_rule == <<"|","-","|","-","|","-","|","-","|","-","|","-","|">>
L_day(d, place) == Bar \o d \o <<"|"," ">> \o place \o <<" ","|","m","|","t","|","a","|","9","|">>
L_short == <<"|","1","|","A","|","m","|","t","|","a","|">>
L_prose == <<"E","n","j","o","y">>

AiContents ==
    { L_head \o NL \o L_rule \o NL \o L_day(T_1, T_A) \o NL \o L_day(T_2, T_A),
      L_day(T_1, T_A) \o NL \o L_day(T_2, T_B),
      L_day(T_1, <<"Z">>) \o NL \o L_prose,
      L_prose,
      L_short }

\* What the completion service can do with a request.
AiOutcomes ==
    {[fails |-> FALSE, content |-> c] : c \in AiContents}
    \cup {[fails |-> TRUE, content |-> <<>>]}

\* The sequences of at most n members of S.
SeqsUpTo(S, n) == UNION {[1..k -> S] : k \in 0..n}

\* --------------------------------------------------- conversation inputs

\* What the participant types or presses at each step.
NameReplies == {T_A}
DateReplies == {T_D1_3}
NotFeasibleReplies == {<<"N","o","n","e">>}
DaysReplies == {T_2, <<"x">>}
PeopleReplies == {T_1}
BudgetReplies == {<<"1","K">>, <<"x">>}
RegionButtons == {<<"A","n","y">>}
KidsButtons == {<<"N","o">>}
TypeButtons == {<<"H","i","l","l","s">>}

\* The reply to the suggestions names the second one twice and types a
\* destination; after a failed request there is no second line to pick.
ChoiceReplies == {<<"2",",","2",","," ","A">>}

\* What the completion service can do with the suggestion request: it
\* fails, or it answers with a numbered list.
SuggestionOutcomes ==
    {[fails |-> TRUE, content |-> <<>>],
     [fails |-> FALSE,
      content |-> <<"1","."," ","A"," ","-"," ","x","\n","2",")"," ","B"," ","(","y",")">>]}

\* ---------------------------------------------------------- state

vars == <<date_text, dates, pc_expand, records, common, pc_window, sheet, fin,
          pc_final, state, user_data, said, fresh>>

ExpandIdle == date_text = <<>> /\ dates = <<>> /\ pc_expand = "idle"
WindowIdle == records = <<>> /\ common = <<>> /\ pc_window = "idle"
BotIdle == sheet = <<>> /\ fin = NoFinal /\ pc_final = "idle"
ChatIdle == state = "END" /\ user_data = NoData /\ said = <<>> /\ fresh = {}

expand_vars == <<date_text, dates, pc_expand>>
window_vars == <<records, common, pc_window>>
bot_vars == <<sheet, fin, pc_final>>
chat_vars == <<state, user_data, said, fresh>>

\* ------------------------------------------------- specification: expand

InitExpand ==
    /\ date_text \in ExpandInputs
    /\ dates = <<>>
    /\ pc_expand = "call"
    /\ WindowIdle
    /\ BotIdle
    /\ ChatIdle

\* One call of expand_date_range(date_text).
ExpandCall ==
    /\ pc_expand = "call"
    /\ IF ExpandRaises(date_text)
       THEN dates' = dates /\ pc_expand' = "raised"
       ELSE dates' = expand_date_range(date_text) /\ pc_expand' = "return"
    /\ UNCHANGED date_text
    /\ UNCHANGED <<window_vars, bot_vars, chat_vars>>

NextExpand == ExpandCall

SpecExpand == InitExpand /\ [][NextExpand]_vars

\* ------------------------------------------ specification: common window

InitWindow ==
    /\ records = <<>>
    /\ common = <<>>
    /\ pc_window = "call"
    /\ ExpandIdle
    /\ BotIdle
    /\ ChatIdle

\* The caller's record list grows by one participant; the last result no
\* longer describes it.
AppendRecord ==
    /\ Len(records) < MaxRecords
    /\ \E r \in WindowRows : records' = Append(records, r)
    /\ common' = <<>>
    /\ pc_window' = "call"
    /\ UNCHANGED <<expand_vars, bot_vars, chat_vars>>

\* One call of intersect_available_minus_notfeasible(records).
IntersectCall ==
    /\ pc_window = "call"
    /\ common' = intersect_available_minus_notfeasible(records)
    /\ pc_window' = "return"
    /\ UNCHANGED records
    /\ UNCHANGED <<expand_vars, bot_vars, chat_vars>>

NextWindow == AppendRecord \/ IntersectCall

SpecWindow == InitWindow /\ [][NextWindow]_vars

\* ------------------------------------------- specification: finalization

\* The sheet holds the rows of up to MaxRecords participants.
InitFinal ==
    /\ sheet \in SeqsUpTo(FinalRows, MaxRecords)
    /\ fin = NoFinal
    /\ pc_final = "idle"
    /\ ExpandIdle
    /\ WindowIdle
    /\ ChatIdle

\* A /final whose tally goes on from the counts of the call before it.
final_itinerary_keeps_counter ==
    /\ \E ai \in AiOutcomes :
           LET got == generate_group_pdf_itinerary(sheet, ai)
           IN  fin' = [got EXCEPT !.reply = ReplyTo(got.result),
                                  !.dest_counts = DestCounts(fin.dest_counts, sheet)]
    /\ UNCHANGED <<sheet, pc_final>>
    /\ UNCHANGED <<expand_vars, window_vars, chat_vars>>

\* The /final command: final_itinerary calls generate_group_pdf_itinerary,
\* which reads the sheet once, and answers the chat.
final_itinerary ==
    /\ \E ai \in AiOutcomes :
           LET got == generate_group_pdf_itinerary(sheet, ai)
           IN  fin' = [got EXCEPT !.reply = ReplyTo(got.result)]
    /\ UNCHANGED <<sheet, pc_final>>
    /\ UNCHANGED <<expand_vars, window_vars, chat_vars>>

NextFinal == final_itinerary

SpecFinal == InitFinal /\ [][NextFinal]_vars

\* --------------------------------- specification: a /final call in steps

\* The rows in the sheet when a /final call starts, and the rows other
\* participants' conversations append while it runs.
SnapshotRows ==
    {Row(T_A, T_D1_3, <<>>, T_2, T_1, T_1000, T_A),
     Row(T_A, <<"D","2","-","3">>, <<>>, T_1, T_2, T_1000, T_B),
     Row(T_A, T_D1_3, <<"D"," ","2">>, <<"4">>, T_1, <<"0">>, <<"B",","," ","A">>)}

InitSnapshot ==
    /\ sheet \in SeqsUpTo(SnapshotRows, 1)
    /\ fin = NoFinal
    /\ pc_final = "idle"
    /\ records = <<>>
    /\ common = <<>>
    /\ pc_window = "idle"
    /\ ExpandIdle
    /\ ChatIdle

\* A conversation of another participant completes and its row is appended;
\* this can happen at any moment of a /final call.
OtherAppend ==
    /\ Len(sheet) < MaxRecords
    /\ \E r \in SnapshotRows : sheet' = Append(sheet, r)
    /\ UNCHANGED <<fin, pc_final, window_vars, expand_vars, chat_vars>>

\* records = sheet.get_all_records(), and the answer for an empty sheet.
FinalRead ==
    /\ pc_final = "idle"
    /\ records' = sheet
    /\ IF sheet = <<>>
       THEN /\ fin' = [NoFinal EXCEPT !.result = NoResponses,
                                      !.reply = ReplyTo(NoResponses)]
            /\ pc_final' = "done"
       ELSE /\ fin' = [NoFinal EXCEPT !.snapshot = sheet]
            /\ pc_final' = "read"
    /\ UNCHANGED <<sheet, common, pc_window, expand_vars, chat_vars>>

\* A step that asks the store again for the common window.
FinalRank_requery ==
    /\ pc_final = "read"
    /\ LET dest_counts == DestCounts(<<>>, records)
           best_dest == IF dest_counts # <<>> THEN FirstMax(dest_counts)[1] ELSE None
           best_dates == intersect_available_minus_notfeasible(sheet)
           counted == [fin EXCEPT !.dest_counts = dest_counts,
                                  !.best_dest = best_dest, !.best_dates = best_dates]
       IN  IF NotEnough(best_dest, best_dates)
           THEN /\ fin' = [counted EXCEPT !.result = NotEnoughData,
                                          !.reply = ReplyTo(NotEnoughData)]
                /\ pc_final' = "done"
           ELSE /\ fin' = counted
                /\ pc_final' = "ranked"
    /\ UNCHANGED <<sheet, window_vars, expand_vars, chat_vars>>

\* The tally, the headline destination, the common window and the guard,
\* all on the records that were read.
FinalRank ==
    /\ pc_final = "read"
    /\ LET dest_counts == DestCounts(<<>>, records)
           best_dest == IF dest_counts # <<>> THEN FirstMax(dest_counts)[1] ELSE None
           best_dates == intersect_available_minus_notfeasible(records)
           counted == [fin EXCEPT !.dest_counts = dest_counts,
                                  !.best_dest = best_dest, !.best_dates = best_dates]
       IN  IF NotEnough(best_dest, best_dates)
           THEN /\ fin' = [counted EXCEPT !.result = NotEnoughData,
                                          !.reply = ReplyTo(NotEnoughData)]
                /\ pc_final' = "done"
           ELSE /\ fin' = counted
                /\ pc_final' = "ranked"
    /\ UNCHANGED <<sheet, window_vars, expand_vars, chat_vars>>

\* The aggregates, the request to the completion service, the document and
\* the answer to the chat, on the records that were read.
FinalRender ==
    /\ pc_final = "ranked"
    /\ \E ai \in AiOutcomes :
           LET got == generate_group_pdf_itinerary(records, ai)
           IN  fin' = [got EXCEPT !.reply = ReplyTo(got.result)]
    /\ pc_final' = "done"
    /\ UNCHANGED <<sheet, window_vars, expand_vars, chat_vars>>

\* The handler has answered; the next /final starts a new call.
FinalReturn ==
    /\ pc_final = "done"
    /\ pc_final' = "idle"
    /\ UNCHANGED <<sheet, fin, window_vars, expand_vars, chat_vars>>

NextSnapshot == OtherAppend \/ FinalRead \/ FinalRank \/ FinalRender \/ FinalReturn

SpecSnapshot == InitSnapshot /\ [][NextSnapshot]_vars

\* --------------------------------------------------- specification: bot

Init ==
    /\ sheet = <<>>
    /\ fin = NoFinal
    /\ state = "END"
    /\ user_data = NoData
    /\ said = <<>>
    /\ fresh = {}
    /\ pc_final = "idle"
    /\ ExpandIdle
    /\ WindowIdle

quiet == <<expand_vars, window_vars, pc_final>>

\* /start: the entry point, taken in any state (allow_reentry).
start ==
    /\ state' = "NAME"
    /\ said' = <<"ask_name">>
    /\ fresh' = {}
    /\ UNCHANGED <<user_data, sheet, fin, quiet>>

get_name ==
    /\ state = "NAME"
    /\ \E text \in NameReplies :
           user_data' = [user_data EXCEPT !.Name = Strip(text)]
    /\ state' = "DATES"
    /\ said' = <<"ask_dates">>
    /\ fresh' = fresh \cup {"Name"}
    /\ UNCHANGED <<sheet, fin, quiet>>

get_dates ==
    /\ state = "DATES"
    /\ \E text \in DateReplies :
           user_data' = [user_data EXCEPT !.Dates_Available = Strip(text)]
    /\ state' = "NOT_FEASIBLE"
    /\ said' = <<"ask_not_feasible">>
    /\ fresh' = fresh \cup {"Dates_Available"}
    /\ UNCHANGED <<sheet, fin, quiet>>

get_not_feasible ==
    /\ state = "NOT_FEASIBLE"
    /\ \E text \in NotFeasibleReplies :
           user_data' = [user_data EXCEPT !.Dates_Not_Feasible =
                            IF ToLower(Strip(text)) \in NoneWords THEN <<>> ELSE Strip(text)]
    /\ state' = "DAYS"
    /\ said' = <<"ask_days">>
    /\ fresh' = fresh \cup {"Dates_Not_Feasible"}
    /\ UNCHANGED <<sheet, fin, quiet>>

get_days ==
    /\ state = "DAYS"
    /\ \E text \in DaysReplies :
           user_data' = [user_data EXCEPT !.No_of_Days = Strip(text)]
    /\ state' = "PEOPLE"
    /\ said' = <<"ask_people">>
    /\ fresh' = fresh \cup {"No_of_Days"}
    /\ UNCHANGED <<sheet, fin, quiet>>

get_people ==
    /\ state = "PEOPLE"
    /\ \E text \in PeopleReplies :
           user_data' = [user_data EXCEPT !.No_of_People = Strip(text)]
    /\ state' = "BUDGET"
    /\ said' = <<"ask_budget">>
    /\ fresh' = fresh \cup {"No_of_People"}
    /\ UNCHANGED <<sheet, fin, quiet>>

\* A budget step that passes over a reply that is no budget.
get_budget_lenient ==
    /\ state = "BUDGET"
    /\ \E text \in BudgetReplies :
           IF BudgetOf(text).ok
           THEN /\ user_data' = [user_data EXCEPT !.Budget_Per_Person =
                                                      StrOfInt(BudgetOf(text).val)]
                /\ fresh' = fresh \cup {"Budget_Per_Person"}
           ELSE UNCHANGED <<user_data, fresh>>
    /\ state' = "REGION"
    /\ said' = <<"ask_region">>
    /\ UNCHANGED <<sheet, fin, quiet>>

\* A reply that is no budget is asked again: the state stays BUDGET and
\* nothing is recorded.  The integer is held by its decimal text, which is
\* what str() writes into the row.
get_budget ==
    /\ state = "BUDGET"
    /\ \E text \in BudgetReplies :
           IF BudgetOf(text).ok
           THEN /\ user_data' = [user_data EXCEPT !.Budget_Per_Person =
                                                      StrOfInt(BudgetOf(text).val)]
                /\ state' = "REGION"
                /\ said' = <<"ask_region">>
                /\ fresh' = fresh \cup {"Budget_Per_Person"}
           ELSE /\ said' = <<"invalid_budget">>
                /\ UNCHANGED <<user_data, state, fresh>>
    /\ UNCHANGED <<sheet, fin, quiet>>

button_region ==
    /\ state = "REGION"
    /\ \E data \in RegionButtons :
           user_data' = [user_data EXCEPT !.Region_Preference = data]
    /\ state' = "KIDS"
    /\ said' = <<"ask_kids">>
    /\ fresh' = fresh \cup {"Region_Preference"}
    /\ UNCHANGED <<sheet, fin, quiet>>

button_kids ==
    /\ state = "KIDS"
    /\ \E data \in KidsButtons :
           user_data' = [user_data EXCEPT !.Kid_Friendly = data]
    /\ state' = "TYPE"
    /\ said' = <<"ask_type">>
    /\ fresh' = fresh \cup {"Kid_Friendly"}
    /\ UNCHANGED <<sheet, fin, quiet>>

\* The type is recorded and the suggestions are requested; a failed request
\* leaves the apology as the suggestions.
button_type ==
    /\ state = "TYPE"
    /\ \E data \in TypeButtons, ai \in SuggestionOutcomes :
           user_data' = [user_data EXCEPT
                            !.Type_Preference = data,
                            !.Suggestions = IF ai.fails THEN SorryText ELSE Strip(ai.content)]
    /\ state' = "CHOICES"
    /\ said' = <<"suggestions">>
    /\ fresh' = fresh \cup {"Type_Preference", "Suggestions"}
    /\ UNCHANGED <<sheet, fin, quiet>>

\* A last step that, told by the store that the append failed, appends the
\* row again until it is stored.
get_choices_retrying ==
    /\ state = "CHOICES"
    /\ \E reply \in ChoiceReplies, appended \in BOOLEAN :
           LET ud == [user_data EXCEPT !.Selected_Destinations =
                         SelectedText(reply, GetOr(user_data.Suggestions))]
           IN  /\ Len(sheet) < MaxRows
               /\ user_data' = ud
               /\ sheet' = Append(sheet, RowOf(ud))
               /\ said' = IF appended THEN <<"saved">> ELSE <<"append_failed", "saved">>
    /\ state' = "END"
    /\ fresh' = {}
    /\ UNCHANGED <<fin, quiet>>

\* The selections are resolved and recorded, the row is appended (the
\* append may fail, which is reported and passed over), the conversation ends.
get_choices ==
    /\ state = "CHOICES"
    /\ \E reply \in ChoiceReplies, appended \in BOOLEAN :
           LET ud == [user_data EXCEPT !.Selected_Destinations =
                         SelectedText(reply, GetOr(user_data.Suggestions))]
           IN  /\ appended => Len(sheet) < MaxRows
               /\ user_data' = ud
               /\ sheet' = IF appended THEN Append(sheet, RowOf(ud)) ELSE sheet
               /\ said' = IF appended THEN <<"saved">> ELSE <<"append_failed", "saved">>
    /\ state' = "END"
    /\ fresh' = {}
    /\ UNCHANGED <<fin, quiet>>

\* A cancel that stores what the participant had answered so far.
cancel_storing ==
    /\ state # "END"
    /\ state' = "END"
    /\ said' = <<"cancelled">>
    /\ fresh' = {}
    /\ sheet' = IF Len(sheet) < MaxRows THEN Append(sheet, RowOf(user_data)) ELSE sheet
    /\ UNCHANGED <<user_data, fin, quiet>>

\* /cancel: the fallback of a running conversation.
cancel ==
    /\ state # "END"
    /\ state' = "END"
    /\ said' = <<"cancelled">>
    /\ fresh' = {}
    /\ UNCHANGED <<user_data, sheet, fin, quiet>>

\* What /summary answers: the text for an empty sheet, or one line per row
\* with its name and its selections.
SummaryReply(data) ==
    IF data = <<>> THEN <<NoResponses>>
    ELSE [i \in 1..Len(data) |->
             data[i].Name \o <<":", " ">> \o data[i].Selected_Destinations]

\* /summary reads the sheet and answers SummaryReply(sheet); it is no part
\* of the conversation and writes nothing.
summary ==
    /\ SummaryReply(sheet) # <<>>
    /\ UNCHANGED vars

Next ==
    \/ start \/ get_name \/ get_dates \/ get_not_feasible \/ get_days
    \/ get_people \/ get_budget \/ button_region \/ button_kids \/ button_type
    \/ get_choices \/ cancel \/ summary \/ final_itinerary

Spec == Init /\ [][Next]_vars

\* ------------------------------------------------ the expander's contract
\* The contract is stated on the text itself, by positions, not by the scan
\* above.

\* The first position at or after i whose character is not of class C
\* (Len(s) + 1 when the rest of s is of class C).
FirstNotIn(s, i, C) ==
    IF i > Len(s) THEN i
    ELSE CHOOSE j \in i..(Len(s) + 1) :
             /\ \A k \in i..(j - 1) : s[k] \in C
             /\ j = Len(s) + 1 \/ s[j] \notin C

\* The positions that bound the segments of a text between separators.
SepBounds(text, seps) ==
    {0, Len(text) + 1} \cup {i \in 1..Len(text) : text[i] \in seps}

NthOf(B, n) == CHOOSE x \in B : Cardinality({y \in B : y < x}) = n - 1

\* The positions that bound the comma/newline-separated segments of a text.
Bounds(text) == SepBounds(text, PartSeps)

NthBound(text, n) == NthOf(Bounds(text), n)

\* A segment without its leading and trailing whitespace.
Trimmed(s) ==
    LET inked == {i \in 1..Len(s) : s[i] \notin Whitespace}
    IN  IF inked = {} THEN <<>>
        ELSE SubSeq(s, CHOOSE i \in inked : \A j \in inked : i <= j,
                       CHOOSE i \in inked : \A j \in inked : i >= j)

IsInked(s) == s # <<>>

\* The non-empty trimmed segments of a text between separators, in order.
SegmentsOf(text, seps) ==
    LET B == SepBounds(text, seps)
    IN  SelectSeq([n \in 1..(Cardinality(B) - 1) |->
                      Trimmed(SubSeq(text, NthOf(B, n) + 1, NthOf(B, n + 1) - 1))],
                  IsInked)

\* The non-empty trimmed segments of a text, in input order.
ContractParts(text) ==
    SelectSeq([n \in 1..(Cardinality(Bounds(text)) - 1) |->
                  Trimmed(SubSeq(text, NthBound(text, n) + 1, NthBound(text, n + 1) - 1))],
              IsInked)

\* The range grammar <word> <digits> <separator> <digits> read off a part:
\* where the word, the two numbers and the separator lie.
Shape(p) ==
    LET w  == FirstNotIn(p, 1, Letters)
        n1 == FirstNotIn(p, w, Whitespace)
        x1 == FirstNotIn(p, n1, Digits)
        sp == FirstNotIn(p, x1, Whitespace)
        n2 == FirstNotIn(p, sp + 1, Whitespace)
        x2 == FirstNotIn(p, n2, Digits)
    IN  [isRange |-> /\ w > 1 /\ x1 > n1 /\ sp <= Len(p)
                     /\ p[sp] \in RangeSeps /\ x2 > n2,
         word |-> SubSeq(p, 1, w - 1),
         from |-> SubSeq(p, n1, x1 - 1),
         to   |-> SubSeq(p, n2, x2 - 1)]

IsRangePart(p) == Shape(p).isRange
StartDay(p) == IntOfDigits(Shape(p).from)
EndDay(p) == IntOfDigits(Shape(p).to)

\* tok is "<word> <day>": the word, one blank, the day in decimal without
\* leading zeros.
IsDayToken(tok, word, day) ==
    /\ Len(tok) > Len(word) + 1
    /\ SubSeq(tok, 1, Len(word)) = word
    /\ tok[Len(word) + 1] = " "
    /\ LET ds == SubSeq(tok, Len(word) + 2, Len(tok))
       IN  /\ \A i \in 1..Len(ds) : ds[i] \in Digits
           /\ Len(ds) = 1 \/ ds[1] # "0"
           /\ IntOfDigits(ds) = day

\* How many tokens the contract gives a part.
TokensOf(p) ==
    IF IsRangePart(p)
    THEN (IF StartDay(p) <= EndDay(p) THEN EndDay(p) - StartDay(p) + 1 ELSE 0)
    ELSE 1

\* How many tokens the parts before part i contribute.
RECURSIVE TokensBefore(_, _)
TokensBefore(P, i) ==
    IF i <= 1 THEN 0 ELSE TokensBefore(P, i - 1) + TokensOf(P[i - 1])

Returned == pc_expand = "return"

\* C4: every part that matches the range grammar with start day <= end day
\* contributes exactly end-start+1 tokens "<word> <day>", one per day from
\* start to end in ascending order, and the parts' tokens follow one another
\* in input order.
C4_RangeExpansion ==
    Returned /\ ~Falsy(date_text) =>
        LET P == ContractParts(date_text)
        IN  /\ Len(dates) = TokensBefore(P, Len(P) + 1)
            /\ \A i \in 1..Len(P) :
                   IsRangePart(P[i]) /\ StartDay(P[i]) <= EndDay(P[i]) =>
                       \A k \in 0..(EndDay(P[i]) - StartDay(P[i])) :
                           IsDayToken(dates[TokensBefore(P, i) + k + 1],
                                      Shape(P[i]).word, StartDay(P[i]) + k)

\* C4's case: a call has returned for a text of several parts, one of them
\* an ascending range of more than one day that is not the first part.
C4_Witness ==
    /\ Returned
    /\ ~Falsy(date_text)
    /\ LET P == ContractParts(date_text)
       IN  \E i \in 2..Len(P) :
               /\ IsRangePart(P[i])
               /\ StartDay(P[i]) < EndDay(P[i])
               /\ Len(dates) >= 3

\* C10: the call always returns a list: empty or missing input gives the
\* empty list, empty parts are dropped, and every part that does not match
\* the range grammar is emitted verbatim, trimmed, as exactly one token.
C10_NeverRaisesOpaqueParts ==
    /\ pc_expand # "raised"
    /\ Returned =>
        /\ Falsy(date_text) => dates = <<>>
        /\ ~Falsy(date_text) =>
            LET P == ContractParts(date_text)
            IN  /\ Len(dates) = TokensBefore(P, Len(P) + 1)
                /\ \A i \in 1..Len(P) :
                       ~IsRangePart(P[i]) =>
                           dates[TokensBefore(P, i) + 1] = P[i]
                /\ \A n \in 1..Len(dates) : dates[n] # <<>>

\* C10's case: a call has returned for a text with an empty part and a part
\* that is no range, which came back as a token.
C10_Witness ==
    /\ Returned
    /\ ~Falsy(date_text)
    /\ LET P == ContractParts(date_text)
       IN  /\ Cardinality(Bounds(date_text)) - 1 > Len(P)
           /\ \E i \in 1..Len(P) : ~IsRangePart(P[i]) /\ P[i] \in SetOf(dates)

\* -------------------------------------------- the common window's contract

WindowReturned == pc_window = "return"

\* The expansion of a record's field, as a set of tokens.
Availability(r) == SetOf(expand_date_range(r.Dates_Available))
Exclusions(r) == SetOf(expand_date_range(r.Dates_Not_Feasible))

\* Every token some record's availability holds.
SomeonesDates(recs) == UNION {Availability(recs[i]) : i \in 1..Len(recs)}

\* C1: the returned tokens are exactly those in every record's availability
\* expansion and in no record's exclusion expansion; for zero records the
\* result is empty.
C1_WindowIsIntersectionMinusExclusions ==
    WindowReturned =>
        /\ SetOf(common) =
               {t \in SomeonesDates(records) :
                   /\ \A i \in 1..Len(records) : t \in Availability(records[i])
                   /\ \A i \in 1..Len(records) : t \notin Exclusions(records[i])}
        /\ records = <<>> => common = <<>>

\* C1's case: three records whose availabilities overlap in more than the
\* returned window, one of them excluding a shared date.
C1_Witness ==
    /\ WindowReturned
    /\ Len(records) = 3
    /\ common # <<>>
    /\ \E t \in SomeonesDates(records) :
           /\ \A i \in 1..Len(records) : t \in Availability(records[i])
           /\ \E i \in 1..Len(records) : t \in Exclusions(records[i])

\* A record with no availability: missing, blank, or expanding to no token.
NoAvailability(r) == Falsy(r.Dates_Available) \/ Availability(r) = {}

\* C5: whenever the record list holds a record without availability (it was
\* appended last, or other records were appended after it), the common
\* window returned for that list is empty.
C5_EmptyAvailabilityEmptiesWindow ==
    WindowReturned /\ (\E i \in 1..Len(records) : NoAvailability(records[i]))
        => common = <<>>

\* C5's case: the record without availability was appended to records that
\* share a date, and another record with dates was appended after it.
C5_Witness ==
    /\ WindowReturned
    /\ Len(records) = 3
    /\ ~NoAvailability(records[1])
    /\ NoAvailability(records[2])
    /\ ~NoAvailability(records[3])
    /\ intersect_available_minus_notfeasible(<<records[1], records[3]>>) # <<>>
    /\ common = <<>>

\* ----------------------------------------------- finalization's contract

Called == fin.result # ""

\* A record's selections: the non-empty trimmed comma-separated entries of
\* its selection field.
PicksOf(r) ==
    IF Falsy(r.Selected_Destinations) THEN <<>>
    ELSE SegmentsOf(r.Selected_Destinations, {","})

\* Every selection of every record, in store order and, within a record, in
\* the order of its field.
RECURSIVE AllPicks(_)
AllPicks(recs) ==
    IF recs = <<>> THEN <<>> ELSE PicksOf(recs[1]) \o AllPicks(Tail(recs))

TimesPicked(recs, name) ==
    Cardinality({k \in 1..Len(AllPicks(recs)) : AllPicks(recs)[k] = name})

FirstPicked(recs, name) ==
    CHOOSE k \in 1..Len(AllPicks(recs)) :
        /\ AllPicks(recs)[k] = name
        /\ \A j \in 1..(k - 1) : AllPicks(recs)[j] # name

\* The common window of a record list, as the set the data model defines.
WindowOf(recs) ==
    {t \in SomeonesDates(recs) :
        /\ \A i \in 1..Len(recs) : t \in Availability(recs[i])
        /\ \A i \in 1..Len(recs) : t \notin Exclusions(recs[i])}

\* C3: the ranking lists every selected destination once with its count, in
\* descending count order, equal counts in the order of first appearance
\* (records in store order, selections in field order); the headline
\* destination is its first element.
C3_RankOrderAndHeadline ==
    fin.prompted =>
        LET R == fin.ranked
            recs == fin.snapshot
        IN  /\ {R[i][1] : i \in 1..Len(R)} = SetOf(AllPicks(recs))
            /\ \A i \in 1..Len(R) : R[i][2] = TimesPicked(recs, R[i][1])
            /\ \A i, j \in 1..Len(R) :
                   i < j =>
                       \/ R[i][2] > R[j][2]
                       \/ /\ R[i][2] = R[j][2]
                          /\ FirstPicked(recs, R[i][1]) < FirstPicked(recs, R[j][1])
            /\ R # <<>>
            /\ fin.best_dest = R[1][1]

\* C3's case: two destinations tie and the one seen first, which the
\* alphabet would put second, leads the ranking.
C3_Witness ==
    /\ fin.prompted
    /\ Len(fin.ranked) = 2
    /\ fin.ranked[1][2] = fin.ranked[2][2]
    /\ fin.ranked[1][1] = T_B
    /\ fin.ranked[2][1] = T_A
    /\ fin.best_dest = T_B

\* The agreed trip length of a record list: the mean of the records' trip
\* lengths, a blank cell counting as zero.
TotalDays(recs) ==
    TruncDiv(SumSeq([i \in 1..Len(recs) |-> PyInt(recs[i].No_of_Days).val]), Len(recs))

NumericCells(recs) ==
    \A i \in 1..Len(recs) :
        /\ PyInt(recs[i].No_of_Days).ok
        /\ PyInt(recs[i].No_of_People).ok
        /\ PyInt(recs[i].Budget_Per_Person).ok

\* C2, as claimed: a rendered plan has exactly N day assignments for the
\* agreed trip length N, day i in place i, each destination taken from the
\* ranked tally.  The plan is the table parsed from the generator's answer,
\* and TLC finds this violated.
C2_PlanHasExactlyNDays ==
    fin.rendered =>
        /\ Len(fin.data_rows) = fin.avg_days
        /\ \A i \in 1..Len(fin.data_rows) :
               /\ fin.data_rows[i][1] = StrOfNat(i)
               /\ \E k \in 1..Len(fin.ranked) : fin.ranked[k][1] = fin.data_rows[i][2]

\* C6, as claimed: a call on records with no selected destination, or with
\* an agreed trip length below 1, ends with an insufficient-data result and
\* neither asks for nor renders a plan.  TLC finds this violated.
C6_NoDestinationOrNoDaysFails ==
    Called /\ (AllPicks(sheet) = <<>>
               \/ (sheet # <<>> /\ NumericCells(sheet) /\ TotalDays(sheet) < 1))
        => /\ fin.result \in {NoResponses, NotEnoughData}
           /\ ~fin.prompted
           /\ ~fin.rendered

\* C7: a call on an empty sheet and a call on records whose common window is
\* empty end with different results, each telling its case, and neither
\* raises: both are answered with the result as text.
C7_NoRecordsDistinctFromEmptyWindow ==
    Called =>
        /\ sheet = <<>> <=> fin.result = NoResponses
        /\ sheet # <<>> /\ WindowOf(sheet) = {} =>
               /\ fin.result = NotEnoughData
               /\ fin.result # NoResponses
        /\ sheet = <<>> \/ WindowOf(sheet) = {} =>
               /\ fin.result # Raised
               /\ fin.reply = "text"

\* C7's case: records with selections exist, even one with a cell int()
\* rejects, and their common window is empty.
C7_Witness ==
    /\ Called
    /\ Len(sheet) >= 2
    /\ AllPicks(sheet) # <<>>
    /\ ~NumericCells(sheet)
    /\ WindowOf(sheet) = {}
    /\ fin.result = NotEnoughData

RecordsPicking(recs, name) ==
    {i \in 1..Len(recs) : name \in SetOf(PicksOf(recs[i]))}

\* C9: in the tally built at finalization the names are the destinations
\* some stored record selected, and the count of each name is the number of
\* records whose selection list contains it, whatever rows the conversations
\* stored, a reply naming one destination twice included.  TLC finds this
\* violated: a row stored from the reply "2,2, A" counts twice for the
\* second suggestion.
C9_CountIsNumberOfRecords ==
    (Called /\ fin.snapshot # <<>>) =>
        /\ {fin.dest_counts[k][1] : k \in 1..Len(fin.dest_counts)}
               = SetOf(AllPicks(fin.snapshot))
        /\ \A k \in 1..Len(fin.dest_counts) :
               fin.dest_counts[k][2]
                   = Cardinality(RecordsPicking(fin.snapshot, fin.dest_counts[k][1]))

\* A step that completes a conversation: the destination-choice step was
\* handled, so the participant is told the destinations were saved.
Completes ==
    /\ state = "CHOICES"
    /\ state' = "END"
    /\ said' # <<>>
    /\ said'[Len(said')] = "saved"

\* The store only grows by appends of one row, and only in a completing step;
\* a stored row is never modified or deleted.
AppendOnly ==
    /\ Len(sheet') >= Len(sheet)
    /\ Len(sheet') <= Len(sheet) + 1
    /\ \A i \in 1..Len(sheet) : sheet'[i] = sheet[i]
    /\ sheet' # sheet => Completes

\* C11, as claimed: the store only grows, its only mutation is an append,
\* made exactly once by every step that completes a conversation and by no
\* other step (/start, a field reply, /cancel, /summary, /final), and stored
\* rows are never modified or deleted.  TLC finds this violated: a
\* conversation completes without a row when the append fails.
C11_AppendOncePerCompletedConversation ==
    [][AppendOnly /\ (Completes => sheet' = Append(sheet, RowOf(user_data')))]_vars

\* C11, amended: the store only grows, its only mutation is an append made
\* by a step that completes a conversation, at most once per completed
\* conversation: once when the append succeeds, not at all when it fails
\* (which the participant is told); stored rows are never modified or deleted.
C11_AppendOnlyAtMostOncePerConversation ==
    [][/\ AppendOnly
       /\ Completes =>
              IF said' = <<"saved">>
              THEN sheet' = Append(sheet, RowOf(user_data'))
              ELSE said' = <<"append_failed", "saved">> /\ sheet' = sheet]_vars

\* C11 witness: two conversations completed and stored their rows, a third
\* was cancelled at its last step, and the store still holds the two rows.
C11_Witness ==
    /\ Len(sheet) = 2
    /\ said = <<"cancelled">>
    /\ state = "END"
    /\ user_data.Suggestions # None
    /\ user_data.Selected_Destinations # None

\* A cell that holds an integer of at least n: an optional minus sign and
\* decimal digits.
IntegerAtLeast(t, n) ==
    LET neg == t # <<>> /\ t[1] = "-"
        ds == IF neg THEN Tail(t) ELSE t
    IN  /\ ds # <<>>
        /\ \A i \in 1..Len(ds) : ds[i] \in Digits
        /\ (IF neg THEN 0 - IntOfDigits(ds) ELSE IntOfDigits(ds)) >= n

\* C12: every row the conversations appended holds a trip length that is an
\* integer of at least 1, a people count that is an integer of at least 1
\* and a budget that is an integer of at least 0.  TLC finds this violated:
\* the reply "x" to the question about the days is stored as it is.
C12_StoredFieldsWithinBounds ==
    \A i \in 1..Len(sheet) :
        /\ IntegerAtLeast(sheet[i].No_of_Days, 1)
        /\ IntegerAtLeast(sheet[i].No_of_People, 1)
        /\ IntegerAtLeast(sheet[i].Budget_Per_Person, 0)

\* The group aggregates of a record list: people in all, mean budget.
TotalPeople(recs) ==
    SumSeq([i \in 1..Len(recs) |-> PyInt(recs[i].No_of_People).val])

MeanBudget(recs) ==
    TruncDiv(SumSeq([i \in 1..Len(recs) |-> PyInt(recs[i].Budget_Per_Person).val]),
             Len(recs))

\* What a /final call has computed so far describes the records it read.
FromOneSnapshot ==
    (pc_final \in {"ranked", "done"} /\ records # <<>>) =>
        /\ fin.snapshot = records
        /\ {fin.dest_counts[k][1] : k \in 1..Len(fin.dest_counts)}
               = SetOf(AllPicks(records))
        /\ \A k \in 1..Len(fin.dest_counts) :
               fin.dest_counts[k][2] = TimesPicked(records, fin.dest_counts[k][1])
        /\ SetOf(fin.best_dates) = WindowOf(records)
        /\ fin.prompted =>
               /\ fin.total_people = TotalPeople(records)
               /\ fin.avg_days = TotalDays(records)
               /\ fin.avg_budget = MeanBudget(records)

\* The store is read when the call starts and at no later step of it.
ReadOnce ==
    /\ records' # records => (pc_final = "idle" /\ records' = sheet)
    /\ (pc_final = "idle" /\ pc_final' # "idle") => records' = sheet

\* C13: a /final call reads the store once, when it starts, and the tally,
\* the common window and the group aggregates it computes are those of the
\* records read then, also when other participants' rows are appended while
\* the call is in progress.
C13_OneSnapshotPerFinalize ==
    [](FromOneSnapshot) /\ [][ReadOnce]_vars

\* C13 witness: a call rendered its document from the one record it read
\* while the store had grown by a row that changes the tally and the window.
C13_Witness ==
    /\ pc_final = "done"
    /\ fin.rendered
    /\ Len(records) = 1
    /\ Len(sheet) > Len(records)
    /\ WindowOf(sheet) # WindowOf(records)
    /\ SetOf(AllPicks(sheet)) # SetOf(AllPicks(records))
    /\ fin.snapshot = records

\* A token "<label> <day>": letters, one blank, decimal digits.
LabelLen(tok) == FirstNotIn(tok, 1, Letters) - 1

IsDated(tok) ==
    /\ LabelLen(tok) >= 1
    /\ Len(tok) >= LabelLen(tok) + 2
    /\ tok[LabelLen(tok) + 1] = " "
    /\ \A i \in (LabelLen(tok) + 2)..Len(tok) : tok[i] \in Digits

LabelOf(tok) == SubSeq(tok, 1, LabelLen(tok))
DayOf(tok) == IntOfDigits(SubSeq(tok, LabelLen(tok) + 2, Len(tok)))

\* C14: the returned window holds no token twice, and of two returned tokens
\* with the same month label the one with the smaller day number comes
\* first.  TLC finds this violated: "D 10" is returned before "D 9".
C14_WindowChronological ==
    WindowReturned =>
        \A i, j \in 1..Len(common) :
            i < j =>
                /\ common[i] # common[j]
                /\ (/\ IsDated(common[i]) /\ IsDated(common[j])
                    /\ LabelOf(common[i]) = LabelOf(common[j]))
                       => DayOf(common[i]) < DayOf(common[j])

\* What a call computed of the tally, the ranking and the common window.
RankAndWindow(f) ==
    <<f.dest_counts, f.best_dest, f.best_dates>>

DashSeps == {"-", "U2013", "U2014"}

\* The range grammar with those separators read off a part.
DashShape(p) ==
    LET w  == FirstNotIn(p, 1, Letters)
        n1 == FirstNotIn(p, w, Whitespace)
        x1 == FirstNotIn(p, n1, Digits)
        sp == FirstNotIn(p, x1, Whitespace)
        n2 == FirstNotIn(p, sp + 1, Whitespace)
        x2 == FirstNotIn(p, n2, Digits)
    IN  [isRange |-> /\ w > 1 /\ x1 > n1 /\ sp <= Len(p)
                     /\ p[sp] \in DashSeps /\ x2 > n2,
         word |-> SubSeq(p, 1, w - 1),
         from |-> IF x1 > n1 THEN IntOfDigits(SubSeq(p, n1, x1 - 1)) ELSE 0,
         to   |-> IF x2 > n2 THEN IntOfDigits(SubSeq(p, n2, x2 - 1)) ELSE 0]

\* C16: a part "<word> <start> <separator> <end>" with start <= end whose
\* separator is a hyphen, an en dash or an em dash, with or without blanks
\* around it, is expanded to the tokens "<word> <day>" for the days from
\* start to end, in order, whichever of the three the separator is.  TLC
\* finds this violated: with an en dash the part is returned as it is.
C16_AnyDashExpands ==
    Returned /\ ~Falsy(date_text) =>
        LET P == ContractParts(date_text)
        IN  \A i \in 1..Len(P) :
                (DashShape(P[i]).isRange /\ DashShape(P[i]).from <= DashShape(P[i]).to) =>
                    \E o \in 0..Len(dates) :
                        \A k \in 0..(DashShape(P[i]).to - DashShape(P[i]).from) :
                            /\ o + k + 1 <= Len(dates)
                            /\ IsDayToken(dates[o + k + 1], DashShape(P[i]).word,
                                          DashShape(P[i]).from + k)

\* A part that matches the range grammar with its start after its end.
IsDescending(p) == IsRangePart(p) /\ StartDay(p) > EndDay(p)

\* The parts of a text that are no descending range, in order.
OtherParts(text) ==
    SelectSeq(ContractParts(text), LAMBDA p : ~IsDescending(p))

\* C17: a range part whose start day exceeds its end day contributes no
\* token, neither its days in reverse nor its own text, and the result is
\* what the other parts of the input give: an ascending range its days in
\* order, any other part its trimmed text, in input order.
C17_DescendingRangeIsEmpty ==
    (Returned /\ ~Falsy(date_text)
        /\ \E i \in 1..Len(ContractParts(date_text)) :
               IsDescending(ContractParts(date_text)[i])) =>
        LET Q == OtherParts(date_text)
        IN  /\ Len(dates) = TokensBefore(Q, Len(Q) + 1)
            /\ \A n \in 1..Len(dates) :
                   \A i \in 1..Len(ContractParts(date_text)) :
                       IsDescending(ContractParts(date_text)[i])
                           => dates[n] # ContractParts(date_text)[i]
            /\ \A i \in 1..Len(Q) :
                   IF IsRangePart(Q[i])
                   THEN \A k \in 0..(EndDay(Q[i]) - StartDay(Q[i])) :
                            IsDayToken(dates[TokensBefore(Q, i) + k + 1],
                                       Shape(Q[i]).word, StartDay(Q[i]) + k)
                   ELSE dates[TokensBefore(Q, i) + 1] = Q[i]

\* C17 witness: a call returned for a text with a descending range before
\* an ascending one, and the result holds the days of the ascending one only.
C17_Witness ==
    /\ Returned
    /\ ~Falsy(date_text)
    /\ LET P == ContractParts(date_text)
       IN  /\ Len(P) = 2
           /\ IsDescending(P[1])
           /\ IsRangePart(P[2]) /\ StartDay(P[2]) < EndDay(P[2])
           /\ Len(dates) = EndDay(P[2]) - StartDay(P[2]) + 1

\* The sum of the counts of a tally or of a ranking.
RECURSIVE SumOfCounts(_)
SumOfCounts(counted) ==
    IF counted = <<>> THEN 0 ELSE counted[1][2] + SumOfCounts(Tail(counted))

\* C18: the counts of the tally, and of the ranking made from it, sum to the
\* number of selection entries of all records read, a record's entries being
\* the non-empty trimmed comma-separated pieces of its selection field (an
\* entry a record repeats counts each time).
C18_CountsSumToSelections ==
    (Called /\ fin.snapshot # <<>>) =>
        /\ SumOfCounts(fin.dest_counts) = Len(AllPicks(fin.snapshot))
        /\ fin.prompted => SumOfCounts(fin.ranked) = Len(AllPicks(fin.snapshot))

\* C18 witness: a call ranked the selections of three records, one of them
\* with two entries and two of them naming the same destination.
C18_Witness ==
    /\ Called
    /\ fin.prompted
    /\ Len(fin.snapshot) = 3
    /\ \E i \in 1..3 : Len(PicksOf(fin.snapshot[i])) = 2
    /\ Len(AllPicks(fin.snapshot)) >= 4
    /\ Len(fin.ranked) = 2
    /\ SumOfCounts(fin.ranked) = Len(AllPicks(fin.snapshot))

\* The ideal stays the request to the completion service lists, in days.
IdealStay ==
    { <<<<"V","a","r","k","a","l","a">>, 2>>,
      <<<<"K","o","d","a","i","k","a","n","a","l">>, 3>>,
      <<<<"M","u","n","n","a","r">>, 3>>,
      <<<<"O","o","t","y">>, 3>>,
      <<<<"M","a","h","a","b","a","l","i","p","u","r","a","m">>, 1>>,
      <<<<"C","o","o","r","g">>, 3>>,
      <<<<"Y","e","l","a","g","i","r","i">>, 1>> }

\* idealStay.get(destination, remaining)
StayOf(destination, remaining) ==
    IF \E e \in IdealStay : e[1] = destination
    THEN (CHOOSE e \in IdealStay : e[1] = destination)[2]
    ELSE remaining

\* The greedy day plan: the destination at the cursor gets
\* min(idealStay.get(destination, remaining), remaining) consecutive days
\* from day on, then the cursor advances, until no day remains.
RECURSIVE Allocate(_, _, _)
Allocate(names, remaining, day) ==
    IF names = <<>> \/ remaining <= 0 THEN <<>>
    ELSE LET stay == StayOf(names[1], remaining)
             n == IF stay < remaining THEN stay ELSE remaining
         IN  [k \in 1..n |-> <<day + k - 1, names[1]>>]
             \o Allocate(Tail(names), remaining - n, day + n)

\* C19: the rendered day plan is the greedy allocation of the agreed trip
\* length over the ranked destinations: row i is day i, in the place the
\* allocation gives that day.  The plan is the table parsed from the
\* generator's answer, and TLC finds this violated.
C19_PlanIsGreedyAllocation ==
    fin.rendered =>
        LET plan == Allocate([k \in 1..Len(fin.ranked) |-> fin.ranked[k][1]],
                             fin.avg_days, 1)
        IN  /\ Len(fin.data_rows) = Len(plan)
            /\ \A i \in 1..Len(plan) :
                   /\ fin.data_rows[i][1] = StrOfNat(plan[i][1])
                   /\ fin.data_rows[i][2] = plan[i][2]

\* The steps of a conversation in their order, each with the key its
\* handler writes; the type step also keeps the suggestions.
StepStates ==
    <<"NAME", "DATES", "NOT_FEASIBLE", "DAYS", "PEOPLE", "BUDGET",
      "REGION", "KIDS", "TYPE", "CHOICES">>

StepKeys ==
    <<{"Name"}, {"Dates_Available"}, {"Dates_Not_Feasible"}, {"No_of_Days"},
      {"No_of_People"}, {"Budget_Per_Person"}, {"Region_Preference"},
      {"Kid_Friendly"}, {"Type_Preference", "Suggestions"}>>

StepOf(st) == CHOOSE n \in 1..Len(StepStates) : StepStates[n] = st

\* The keys the steps before step n write.
KeysBefore(n) == UNION {StepKeys[m] : m \in 1..(n - 1)}

RowKeys ==
    {"Name", "Dates_Available", "Dates_Not_Feasible", "No_of_Days", "No_of_People",
     "Budget_Per_Person", "Region_Preference", "Kid_Friendly", "Type_Preference",
     "Selected_Destinations"}

\* In a running conversation the keys written since its /start are those of
\* the steps before the current one, and each of them holds a value.
WrittenInOrder ==
    /\ state = "END" => fresh = {}
    /\ state # "END" =>
           /\ fresh = KeysBefore(StepOf(state))
           /\ \A key \in fresh : user_data[key] # None

\* A step moves the conversation to the next step, back to the name step
\* (/start) or to its end, and writes only the key of the step it handles;
\* a reply that is no budget leaves the step and the data as they are; a
\* row is appended only by the step that handles CHOICES, and it is made of
\* the values written since the /start of that run and of the selections
\* that step resolves.
StepByStep ==
    /\ state' # state =>
           \/ state' = "NAME" /\ fresh' = {}
           \/ state' = "END"
           \/ /\ state # "END" /\ state' # "END"
              /\ StepOf(state') = StepOf(state) + 1
              /\ fresh' = fresh \cup StepKeys[StepOf(state)]
    /\ \A key \in RowKeys \cup {"Suggestions"} :
           user_data'[key] # user_data[key] =>
               \/ key \in fresh' \ fresh
               \/ key = "Selected_Destinations" /\ Completes
    /\ said' = <<"invalid_budget">> =>
           /\ state = "BUDGET" /\ state' = "BUDGET"
           /\ user_data' = user_data /\ sheet' = sheet
    /\ sheet' # sheet =>
           /\ state = "CHOICES" /\ state' = "END"
           /\ fresh = KeysBefore(StepOf("CHOICES"))
           /\ sheet' = Append(sheet, RowOf(user_data'))
           /\ \A key \in RowKeys \ {"Selected_Destinations"} :
                  user_data'[key] = user_data[key]

AppendFails ==
    /\ state = "CHOICES"
    /\ said' = <<"append_failed", "saved">>

\* A step that answers /final.
Finalizes == fin' # fin

\* What a /final counts is what the store holds: its snapshot is the store,
\* its tally and its head count are those of the stored rows.
CountsTheStore ==
    /\ sheet = <<>> => fin'.result = NoResponses
    /\ sheet # <<>> =>
           LET picks == AllPicks(sheet)
           IN  /\ fin'.snapshot = sheet
               /\ \A k \in 1..Len(fin'.dest_counts) :
                      fin'.dest_counts[k][2] =
                          Cardinality({i \in 1..Len(picks) :
                                          picks[i] = fin'.dest_counts[k][1]})
               /\ fin'.prompted => fin'.total_people = TotalPeople(sheet)

\* C21: when the append of the row fails in the last step of a conversation,
\* the store is left as it was, the conversation still ends and its last
\* message says the destinations were saved; nothing appends the row later
\* (the store changes only in the last step of a conversation that was run
\* through from /start), and a /final counts the stored rows only, so the
\* participant whose append failed is not counted.
C21_FailedAppendIsPassedOver ==
    [][/\ AppendFails =>
              /\ sheet' = sheet
              /\ state' = "END"
              /\ said'[Len(said')] = "saved"
       /\ sheet' # sheet =>
              /\ state = "CHOICES"
              /\ fresh = KeysBefore(StepOf("CHOICES"))
       /\ Finalizes => sheet' = sheet /\ CountsTheStore]_vars

\* C21 witness: a conversation was completed with a failed append, the store
\* holds no row, and /final has answered that there are no responses.
C21_Witness ==
    /\ state = "END"
    /\ said = <<"append_failed", "saved">>
    /\ user_data.Selected_Destinations # None
    /\ sheet = <<>>
    /\ fin.result = NoResponses

====
